---- MODULE Spec2Model ----
(***************************************************************************)
(* Live log tailing of the walkai admin console.                           *)
(*                                                                         *)
(* The PodDetail page (src/src/pages/PodDetail.tsx) keeps three pieces of  *)
(* React state, logLines, logError and isStreaming, and an effect keyed on *)
(* podName.  Each run of the effect is one tailing session: a closure with *)
(* its own isActive flag, AbortController, TextDecoder and pending text,   *)
(* running the async function streamLogs.  The effect's cleanup cancels    *)
(* the session.  JavaScript runs each continuation of streamLogs to its    *)
(* next await without interleaving, so every action below is the code      *)
(* between two suspension points.                                          *)
(*                                                                         *)
(* The effect of the job-run page (src/unnamed/part_005, lines 786-872)    *)
(* is the same code up to the request URL, the key (jobId, runId), the     *)
(* wording of the fallback message and the name of the busy flag.          *)
(*                                                                         *)
(* Text is a sequence of Unicode code points; bytes are numbers 0..255.    *)
(***************************************************************************)
EXTENDS Integers, Sequences, FiniteSets, TLC

(***************************************************************************)
(* Bounds of the model.                                                    *)
(***************************************************************************)
\* PodDetail.tsx:14 sets MAX_LOG_LINES = 500.  The window is scaled down so
\* that eviction happens within the byte budget; nothing below depends on
\* its value other than through AppendBounded.
MAX_LOG_LINES == 2
\* Bytes the transport delivers over the page's lifetime, all sessions.
MaxBytes == 5
\* Longest chunk one reader.read() resolves with.
MaxChunkLen == 3

\* ProtectedRoute: session checks started, and navigations to '/'.
MaxChecks == 5
MaxNavigations == 2

\* The page that changes pods: bytes delivered to all its sessions together.
PageMaxBytes == 3

\* The bytes chunks are made of: LF, "a", and the 3-byte lead 0xE2 with the
\* continuation 0x82 (E2 82 82 is U+2082; any other arrangement is malformed).
LF == 10
Bytes == {10, 97, 226, 130}
\* Route parameters; "" is the absent podName.
Keys == {"p1", "p2"}
FirstKey == "p1"
NoKey == ""

(***************************************************************************)
(* Sequence helpers with the semantics of the JavaScript built-ins used.   *)
(***************************************************************************)
Max(a, b) == IF a >= b THEN a ELSE b
Min(a, b) == IF a <= b THEN a ELSE b

\* Array.prototype.slice(start) for an integer start (negative counts from
\* the end; -0 is 0).
Slice(arr, start) ==
  LET n == Len(arr)
      from == IF start < 0 THEN Max(n + start, 0) ELSE Min(start, n)
  IN  SubSeq(arr, from + 1, n)

\* String.prototype.split('\n'): the pieces between line feeds; always at
\* least one piece.
RECURSIVE SplitFrom(_, _, _)
SplitFrom(text, i, cur) ==
  IF i > Len(text) THEN <<cur>>
  ELSE IF text[i] = LF THEN <<cur>> \o SplitFrom(text, i + 1, <<>>)
  ELSE SplitFrom(text, i + 1, Append(cur, text[i]))
\* Fault: split on a separator that does not occur.
Split_Whole(text) == <<text>>

Split(text) == SplitFrom(text, 1, <<>>)

\* Array.prototype.pop(): the last element, and the array without it.
PopValue(arr) == arr[Len(arr)]
PopRest(arr) == SubSeq(arr, 1, Len(arr) - 1)

(***************************************************************************)
(* TextDecoder (UTF-8, non-fatal, ignoreBOM false), the WHATWG decoder.    *)
(***************************************************************************)
REPLACEMENT == 65533
BOM == 65279

NewDecoder ==
  [needed |-> 0, seen |-> 0, cp |-> 0, lower |-> 128, upper |-> 191,
   bomSeen |-> FALSE]

ResetSequence(d) ==
  [d EXCEPT !.needed = 0, !.seen = 0, !.cp = 0, !.lower = 128, !.upper = 191]

\* A byte met with no sequence open.
DecodeLead(d, b) ==
  IF b <= 127 THEN [dec |-> d, out |-> <<b>>]
  ELSE IF b >= 194 /\ b <= 223
    THEN [dec |-> [d EXCEPT !.needed = 1, !.cp = b - 192], out |-> <<>>]
  ELSE IF b >= 224 /\ b <= 239
    THEN [dec |-> [d EXCEPT !.needed = 2, !.cp = b - 224,
                            !.lower = IF b = 224 THEN 160 ELSE 128,
                            !.upper = IF b = 237 THEN 159 ELSE 191],
          out |-> <<>>]
  ELSE IF b >= 240 /\ b <= 244
    THEN [dec |-> [d EXCEPT !.needed = 3, !.cp = b - 240,
                            !.lower = IF b = 240 THEN 144 ELSE 128,
                            !.upper = IF b = 244 THEN 143 ELSE 191],
          out |-> <<>>]
  ELSE [dec |-> d, out |-> <<REPLACEMENT>>]

\* One byte through the decoder: the new state and the code points emitted.
DecodeByte(d, b) ==
  IF d.needed = 0 THEN DecodeLead(d, b)
  ELSE IF b < d.lower \/ b > d.upper
    THEN LET r == DecodeLead(ResetSequence(d), b)
         IN  [dec |-> r.dec, out |-> <<REPLACEMENT>> \o r.out]
  ELSE LET cp == d.cp * 64 + (b - 128)
       IN  IF d.seen + 1 = d.needed
             THEN [dec |-> ResetSequence(d), out |-> <<cp>>]
             ELSE [dec |-> [d EXCEPT !.cp = cp, !.seen = d.seen + 1,
                                     !.lower = 128, !.upper = 191],
                   out |-> <<>>]

RECURSIVE DecodeBytes(_, _, _)
DecodeBytes(d, bytes, i) ==
  IF i > Len(bytes) THEN [dec |-> d, out |-> <<>>]
  ELSE LET one == DecodeByte(d, bytes[i])
           rest == DecodeBytes(one.dec, bytes, i + 1)
       IN  [dec |-> rest.dec, out |-> one.out \o rest.out]

\* The first code point of the stream is dropped when it is the BOM.
StripBOM(d, out) ==
  IF d.bomSeen \/ Len(out) = 0 THEN [dec |-> d, out |-> out]
  ELSE [dec |-> [d EXCEPT !.bomSeen = TRUE],
        out |-> IF out[1] = BOM THEN Tail(out) ELSE out]

\* decoder.decode(value, { stream: true }): an unfinished sequence is carried.
DecodeStream(d, bytes) ==
  LET r == DecodeBytes(d, bytes, 1)
  IN  StripBOM(r.dec, r.out)

\* decoder.decode(value) / decoder.decode(): the input ends here; an
\* unfinished sequence becomes U+FFFD and the decoder starts afresh.
DecodeFlush(d, bytes) ==
  LET r == DecodeBytes(d, bytes, 1)
      all == IF r.dec.needed # 0 THEN r.out \o <<REPLACEMENT>> ELSE r.out
  IN  [dec |-> NewDecoder, out |-> StripBOM(r.dec, all).out]

(***************************************************************************)
(* Messages.  logError is null or a string; the strings the code builds    *)
(* are kept apart by how they were built.                                  *)
(***************************************************************************)
NoError == [kind |-> "null"]
\* `Failed to stream logs for pod ${podName}.`
FallbackMessage(key) == [kind |-> "fallback", pod |-> key]
UnsupportedMessage == [kind |-> "unsupported"]
TextMessage(text) == [kind |-> "text", text |-> text]

\* White space String.prototype.trim() removes (the part within reach).
WhiteSpace == {9, 10, 11, 12, 13, 32, 160}

RECURSIVE TrimStart(_)
TrimStart(text) ==
  IF text # <<>> /\ Head(text) \in WhiteSpace THEN TrimStart(Tail(text)) ELSE text
RECURSIVE TrimEnd(_)
TrimEnd(text) ==
  IF text # <<>> /\ text[Len(text)] \in WhiteSpace
    THEN TrimEnd(SubSeq(text, 1, Len(text) - 1)) ELSE text
Trim(text) == TrimEnd(TrimStart(text))

\* What response.json() can come to: a rejection (the body is no JSON), or
\* a payload whose detail is a string or something else.
JsonOutcomes ==
  { [ok |-> FALSE],
    [ok |-> TRUE, isString |-> FALSE],
    [ok |-> TRUE, isString |-> TRUE, detail |-> <<>>],
    [ok |-> TRUE, isString |-> TRUE, detail |-> <<32>>],
    [ok |-> TRUE, isString |-> TRUE, detail |-> <<100, 32>>] }

\* Fault: any string detail is reported, a blank one included.
ErrorDetail_AnyString(outcome, key) ==
  IF outcome.ok /\ outcome.isString
    THEN TextMessage(outcome.detail)
    ELSE FallbackMessage(key)

\* The message of a non-success response.
ErrorDetail(outcome, key) ==
  IF outcome.ok /\ outcome.isString /\ Trim(outcome.detail) # <<>>
    THEN TextMessage(outcome.detail)
    ELSE FallbackMessage(key)

\* What a rejected fetch or read throws: an Error with a message or with
\* none, or a value that is no Error.
Thrown ==
  { [isError |-> TRUE, message |-> <<110>>],
    [isError |-> TRUE, message |-> <<>>],
    [isError |-> FALSE] }

\* Fault: the message of the Error is used even when it is empty.
getErrorMessage_NoFallback(error, fallback) ==
  IF error.isError THEN TextMessage(error.message) ELSE fallback

getErrorMessage(error, fallback) ==
  IF error.isError
    THEN (IF error.message # <<>> THEN TextMessage(error.message) ELSE fallback)
    ELSE fallback

(***************************************************************************)
(* The decisions streamLogs takes, one operator per condition of the code. *)
(***************************************************************************)
\* Faults of the updater: the cut left out; the cut taken from the front.
AppendBounded_NoCut(previous, parts) == previous \o parts
AppendBounded_KeepsOldest(previous, parts) ==
  LET next == previous \o parts
  IN  IF Len(next) <= MAX_LOG_LINES THEN next ELSE SubSeq(next, 1, MAX_LOG_LINES)

\* The updater given to setLogLines.
AppendBounded(previous, parts) ==
  LET next == previous \o parts
  IN  IF Len(next) <= MAX_LOG_LINES THEN next ELSE Slice(next, -MAX_LOG_LINES)

\* Fault: an active session updates the lines on every chunk.
SkipBatch_OnEveryChunk(isActive, parts) == ~isActive

\* Fault: the batch is skipped only when it is empty.
SkipBatch_IgnoresCancel(isActive, parts) == Len(parts) = 0

\* `if (!isActive || parts.length === 0) continue`
SkipBatch(isActive, parts) == ~isActive \/ Len(parts) = 0

\* Fault: the final text is appended even when it is empty.
FlushesFinal_EvenEmpty(isActive, finalChunk) == isActive

\* `if (isActive && finalChunk)`
FlushesFinal(isActive, finalChunk) == isActive /\ finalChunk # <<>>

\* `if (!isActive) return` before each setLogError of the try block.
ReportsError(isActive) == isActive

\* Fault: the catch block reports whatever was thrown, an abort included.
CatchReports_Always(aborted, isActive) == TRUE

\* `if (controller.signal.aborted || !isActive) return` of the catch block.
CatchReports(aborted, isActive) == ~(aborted \/ ~isActive)

\* Fault: the finally block clears the indicator for a cancelled session too.
FinallyClears_Always(isActive) == TRUE

\* `if (isActive) setIsStreaming(false)` of the finally block.
FinallyClears(isActive) == isActive

(***************************************************************************)
(* State.                                                                  *)
(***************************************************************************)
VARIABLES
  mounted,      \* the page component is mounted
  podName,      \* the route parameter the effect is keyed on
  logLines,     \* React state
  logError,     \* React state
  isStreaming,  \* React state
  sess,         \* the sessions started so far, in order, one per effect run
  route         \* ProtectedRoute and the ['session'] query it observes

vars == <<mounted, podName, logLines, logError, isStreaming, sess, route>>

\* A session as the effect creates it (lines 176-177, 217-218), with the
\* history kept for the properties: the bytes delivered to it, the lines it
\* completed, the number of setLogLines and setLogError calls it made, where
\* it was suspended when it was cancelled, how streamLogs returned, whether
\* a chunk boundary fell inside a multi-byte character, the number of fetch
\* calls it made (the first is made as streamLogs starts), and what its
\* request was answered with.
NewSession(key) ==
  [key |-> key, isActive |-> TRUE, aborted |-> FALSE, pc |-> "fetch",
   decoder |-> NewDecoder, pending |-> <<>>,
   received |-> <<>>, produced |-> <<>>, updates |-> 0, errors |-> 0,
   cancelledAt |-> "never", how |-> "running", splitChar |-> FALSE,
   requests |-> 1, response |-> "none"]

Sessions == 1..Len(sess)

RECURSIVE SumReceived(_)
SumReceived(i) == IF i = 0 THEN 0 ELSE Len(sess[i].received) + SumReceived(i - 1)
BytesDelivered == SumReceived(Len(sess))

\* The chunks a read can resolve with: 1..MaxChunkLen bytes.
Chunks == UNION {[1..n -> Bytes] : n \in 1..MaxChunkLen}

\* ProtectedRoute before it is mounted, the session query not yet made:
\* whether the wrapper is mounted and what it rendered last, the query's
\* status, error code and fetch in flight, whether the effect has yet to run
\* for the last render, and, as history, the number of checks started and of
\* navigate('/') calls.
RouteInit ==
  [mounted |-> FALSE, shown |-> "nothing", status |-> "pending", code |-> "none",
   hasData |-> FALSE, fetching |-> FALSE, effectDue |-> FALSE,
   checks |-> 0, navigations |-> 0]

Init ==
  /\ mounted = FALSE
  /\ podName = NoKey
  /\ logLines = <<>>
  /\ logError = NoError
  /\ isStreaming = FALSE
  /\ sess = <<>>
  /\ route = RouteInit

(***************************************************************************)
(* The effect and its cleanup.                                             *)
(***************************************************************************)
\* Fault: the cleanup clears the flag and leaves the request alone.
Cleanup_NoAbort(ss, key) ==
  IF key = NoKey \/ Len(ss) = 0 THEN ss
  ELSE [ss EXCEPT ![Len(ss)] =
          [@ EXCEPT !.isActive = FALSE,
                    !.cancelledAt = IF @ = "never" THEN ss[Len(ss)].pc ELSE @]]

\* Fault: the cleanup aborts the request and leaves the flag set.
Cleanup_OnlyAborts(ss, key) ==
  IF key = NoKey \/ Len(ss) = 0 THEN ss
  ELSE [ss EXCEPT ![Len(ss)] =
          [@ EXCEPT !.aborted = TRUE,
                    !.cancelledAt = IF @ = "never" THEN ss[Len(ss)].pc ELSE @]]

\* The cleanup the effect returned: registered only when podName was set.
Cleanup(ss, key) ==
  IF key = NoKey \/ Len(ss) = 0 THEN ss
  ELSE [ss EXCEPT ![Len(ss)] =
          [@ EXCEPT !.isActive = FALSE, !.aborted = TRUE,
                    !.cancelledAt = IF @ = "never" THEN ss[Len(ss)].pc ELSE @]]

\* Fault: the effect has no guard and starts a session for the empty key.
RunEffect_NoGuard(k, ss) ==
  /\ sess' = Append(ss, NewSession(k))
  /\ logLines' = <<>>
  /\ logError' = NoError
  /\ isStreaming' = TRUE

\* The effect body for the key k, after the previous cleanup (if any) ran.
\* streamLogs runs synchronously up to `await fetch`.
RunEffect(k, ss) ==
  IF k = NoKey
    THEN /\ sess' = ss
         /\ UNCHANGED <<logLines, logError, isStreaming>>
    ELSE /\ sess' = Append(ss, NewSession(k))
         /\ logLines' = <<>>
         /\ logError' = NoError
         /\ isStreaming' = TRUE

Mount(k) ==
  /\ ~mounted
  /\ sess = <<>>
  /\ mounted' = TRUE
  /\ podName' = k
  /\ RunEffect(k, sess)

ChangeKey(k) ==
  /\ mounted
  /\ k # podName
  /\ podName' = k
  /\ RunEffect(k, Cleanup(sess, podName))
  /\ UNCHANGED mounted

Unmount ==
  /\ mounted
  /\ mounted' = FALSE
  /\ sess' = Cleanup(sess, podName)
  /\ UNCHANGED <<podName, logLines, logError, isStreaming>>

(***************************************************************************)
(* streamLogs, one action per continuation.                                *)
(***************************************************************************)
\* The finally block, given what the try or catch block left of logError.
Finally(s) ==
  isStreaming' = IF FinallyClears(sess[s].isActive) THEN FALSE ELSE isStreaming

\* Fault: the report does not end streamLogs, which stays where it was.
ReportAndEnd_GoesOn(s, reports, message, how) ==
  /\ logError' = IF reports THEN message ELSE logError
  /\ sess' = [sess EXCEPT ![s] =
                [@ EXCEPT !.how = how, !.errors = IF reports THEN @ + 1 ELSE @]]
  /\ Finally(s)
  /\ UNCHANGED <<mounted, podName, logLines>>

\* Fault: the lines are reset when the error is reported.
ReportAndEnd_ClearsLines(s, reports, message, how) ==
  /\ logError' = IF reports THEN message ELSE logError
  /\ logLines' = IF reports THEN <<>> ELSE logLines
  /\ sess' = [sess EXCEPT ![s] =
                [@ EXCEPT !.pc = "done", !.how = how,
                          !.errors = IF reports THEN @ + 1 ELSE @]]
  /\ Finally(s)
  /\ UNCHANGED <<mounted, podName>>

\* Fault: the failure is answered with another request.
ReportAndEnd_Retries(s, reports, message, how) ==
  /\ logError' = IF reports THEN message ELSE logError
  /\ sess' = [sess EXCEPT ![s] =
                [@ EXCEPT !.pc = "fetch", !.how = how,
                          !.requests = @ + 1,
                          !.errors = IF reports THEN @ + 1 ELSE @]]
  /\ Finally(s)
  /\ UNCHANGED <<mounted, podName, logLines>>

\* setLogError(message) and return, when the guard before it lets it through.
ReportAndEnd(s, reports, message, how) ==
  /\ logError' = IF reports THEN message ELSE logError
  /\ sess' = [sess EXCEPT ![s] =
                [@ EXCEPT !.pc = "done", !.how = how,
                          !.errors = IF reports THEN @ + 1 ELSE @]]
  /\ Finally(s)
  /\ UNCHANGED <<mounted, podName, logLines>>

\* Fault: the status is not looked at and the body is read as log data.
FetchNotOk_ReadsBody(s) ==
  /\ sess[s].pc = "fetch"
  /\ sess' = [sess EXCEPT ![s] =
                [@ EXCEPT !.pc = "read", !.decoder = NewDecoder, !.pending = <<>>,
                          !.response = "notok"]]
  /\ UNCHANGED <<mounted, podName, logLines, logError, isStreaming>>

\* fetch resolved with a response that is not ok: on to response.json().
FetchNotOk(s) ==
  /\ sess[s].pc = "fetch"
  /\ sess' = [sess EXCEPT ![s] = [@ EXCEPT !.pc = "json", !.response = "notok"]]
  /\ UNCHANGED <<mounted, podName, logLines, logError, isStreaming>>

\* response.json() settled (lines 196-207).
JsonSettled(s, outcome) ==
  /\ sess[s].pc = "json"
  /\ ReportAndEnd(s, ReportsError(sess[s].isActive), ErrorDetail(outcome, sess[s].key),
                  "status")

\* Fault: without a reader streamLogs returns and reports nothing.
FetchNoReader_Silent(s) ==
  /\ sess[s].pc = "fetch"
  /\ ReportAndEnd(s, FALSE, UnsupportedMessage, "noreader")

\* fetch resolved ok, and response.body has no reader (lines 210-215).
FetchNoReader(s) ==
  /\ sess[s].pc = "fetch"
  /\ ReportAndEnd(s, ReportsError(sess[s].isActive), UnsupportedMessage,
                  "noreader")

\* fetch resolved ok with a readable body: up to the first reader.read().
FetchOk(s) ==
  /\ sess[s].pc = "fetch"
  /\ sess' = [sess EXCEPT ![s] =
                [@ EXCEPT !.pc = "read", !.decoder = NewDecoder, !.pending = <<>>,
                          !.response = "ok"]]
  /\ UNCHANGED <<mounted, podName, logLines, logError, isStreaming>>

\* Fault: each chunk decoded as if it were the whole input.
DecodeChunk_NoCarry(decoder, chunk) == DecodeFlush(decoder, chunk)

\* The text of a chunk (line 224).
DecodeChunk(decoder, chunk) == DecodeStream(decoder, chunk)

\* reader.read() resolved with a chunk (lines 221-234).
ReadChunk(s, chunk) ==
  /\ sess[s].pc = "read"
  /\ LET d == DecodeChunk(sess[s].decoder, chunk)
         pieces == Split(sess[s].pending \o d.out)
         parts == PopRest(pieces)
         skip == SkipBatch(sess[s].isActive, parts)
     IN  /\ logLines' = IF skip THEN logLines ELSE AppendBounded(logLines, parts)
         /\ sess' = [sess EXCEPT ![s] =
                       [@ EXCEPT !.decoder = d.dec,
                                 !.pending = PopValue(pieces),
                                 !.received = @ \o chunk,
                                 !.produced = @ \o parts,
                                 !.splitChar = @ \/ (sess[s].decoder.needed # 0
                                                     /\ d.out # <<>>
                                                     /\ d.out[1] # REPLACEMENT),
                                 !.updates = IF skip THEN @ ELSE @ + 1]]
  /\ UNCHANGED <<mounted, podName, logError, isStreaming>>

\* Fault: the decoder is not flushed at the end.
FinalChunk_NoFlush(pending, decoder) == pending

\* pending + decoder.decode() (line 237).
FinalChunk(pending, decoder) == pending \o DecodeFlush(decoder, <<>>).out

\* reader.read() resolved with done (lines 222, 237-244, 250-254).
ReadDone(s) ==
  /\ sess[s].pc = "read"
  /\ LET finalChunk == FinalChunk(sess[s].pending, sess[s].decoder)
         flush == FlushesFinal(sess[s].isActive, finalChunk)
     IN  /\ logLines' = IF flush THEN AppendBounded(logLines, <<finalChunk>>)
                                 ELSE logLines
         /\ sess' = [sess EXCEPT ![s] =
                       [@ EXCEPT !.pc = "done", !.how = "ended",
                                 !.produced = IF finalChunk # <<>>
                                                THEN Append(@, finalChunk) ELSE @,
                                 !.updates = IF flush THEN @ + 1 ELSE @]]
  /\ Finally(s)
  /\ UNCHANGED <<mounted, podName, logError>>

\* fetch rejected: the catch block (lines 245-249).
FetchRejected(s, error) ==
  /\ sess[s].pc = "fetch"
  /\ ReportAndEnd(s, CatchReports(sess[s].aborted, sess[s].isActive),
                  getErrorMessage(error, FallbackMessage(sess[s].key)), "thrown")

\* Fault: the catch block delivers the pending text as a last line.
ReadRejected_FlushesPending(s, error) ==
  /\ sess[s].pc = "read"
  /\ LET reports == CatchReports(sess[s].aborted, sess[s].isActive)
         flush == sess[s].isActive /\ sess[s].pending # <<>>
     IN  /\ logError' = IF reports
                          THEN getErrorMessage(error, FallbackMessage(sess[s].key))
                          ELSE logError
         /\ logLines' = IF flush THEN AppendBounded(logLines, <<sess[s].pending>>)
                                 ELSE logLines
         /\ sess' = [sess EXCEPT ![s] =
                       [@ EXCEPT !.pc = "done", !.how = "thrown",
                                 !.produced = IF flush THEN Append(@, sess[s].pending)
                                                       ELSE @,
                                 !.updates = IF flush THEN @ + 1 ELSE @,
                                 !.errors = IF reports THEN @ + 1 ELSE @]]
  /\ Finally(s)
  /\ UNCHANGED <<mounted, podName>>

\* Fault: the loop gives up waiting by itself and reports the fallback.
ReadRejected_TimesOut(s, error) ==
  /\ sess[s].pc = "read"
  /\ ReportAndEnd(s, sess[s].isActive, FallbackMessage(sess[s].key), "timeout")

\* reader.read() rejected: the catch block (lines 245-249).
ReadRejected(s, error) ==
  /\ sess[s].pc = "read"
  /\ ReportAndEnd(s, CatchReports(sess[s].aborted, sess[s].isActive),
                  getErrorMessage(error, FallbackMessage(sess[s].key)), "thrown")

\* One page and the one session it starts: the page is mounted on a pod,
\* and the session is cancelled by the route losing its podName or by the
\* page unmounting.
Next ==
  \/ /\ Mount(FirstKey)
     /\ UNCHANGED route
  \/ /\ ChangeKey(NoKey)
     /\ UNCHANGED route
  \/ /\ Unmount
     /\ UNCHANGED route
  \/ /\ \E s \in Sessions : FetchNotOk(s)
     /\ UNCHANGED route
  \/ /\ \E s \in Sessions, outcome \in JsonOutcomes : JsonSettled(s, outcome)
     /\ UNCHANGED route
  \/ /\ \E s \in Sessions : FetchNoReader(s)
     /\ UNCHANGED route
  \/ /\ \E s \in Sessions : FetchOk(s)
     /\ UNCHANGED route
  \/ /\ \E s \in Sessions :
          /\ sess[s].pc = "read"
          /\ LET room == MaxBytes - BytesDelivered
             IN  \E chunk \in {c \in Chunks : Len(c) <= room} : ReadChunk(s, chunk)
     /\ UNCHANGED route
  \/ /\ \E s \in Sessions : ReadDone(s)
     /\ UNCHANGED route
  \/ /\ \E s \in Sessions, error \in Thrown : FetchRejected(s, error)
     /\ UNCHANGED route
  \/ /\ \E s \in Sessions, error \in Thrown : ReadRejected(s, error)
     /\ UNCHANGED route

Spec == Init /\ [][Next]_vars

(***************************************************************************)
(* The page over several pods: it is mounted with or without a podName,    *)
(* the route parameter changes, and every change of it runs the cleanup    *)
(* of the previous effect and the effect again; each pod is visited once.  *)
(* A cancelled session still gets what was in flight for it while its      *)
(* successor runs.  Chunks are ASCII here, an error body carries no        *)
(* detail, and what is thrown is an Error with a message.                  *)
(***************************************************************************)
PageChunks == {c \in Chunks : \A i \in 1..Len(c) : c[i] < 128}
PageJsonOutcomes == {outcome \in JsonOutcomes : ~outcome.ok}
PageThrown == {error \in Thrown : error.isError /\ error.message # <<>>}

PageNext ==
  \/ /\ \E k \in Keys \cup {NoKey} : Mount(k)
     /\ UNCHANGED route
  \/ /\ \E k \in Keys \cup {NoKey} :
          /\ \A t \in Sessions : sess[t].key # k
          /\ ChangeKey(k)
     /\ UNCHANGED route
  \/ /\ Unmount
     /\ UNCHANGED route
  \/ /\ \E s \in Sessions : FetchNotOk(s)
     /\ UNCHANGED route
  \/ /\ \E s \in Sessions, outcome \in PageJsonOutcomes : JsonSettled(s, outcome)
     /\ UNCHANGED route
  \/ /\ \E s \in Sessions : FetchNoReader(s)
     /\ UNCHANGED route
  \/ /\ \E s \in Sessions : FetchOk(s)
     /\ UNCHANGED route
  \/ /\ \E s \in Sessions :
          /\ sess[s].pc = "read"
          /\ LET room == PageMaxBytes - BytesDelivered
             IN  \E chunk \in {c \in PageChunks : Len(c) <= room} : ReadChunk(s, chunk)
     /\ UNCHANGED route
  \/ /\ \E s \in Sessions : ReadDone(s)
     /\ UNCHANGED route
  \/ /\ \E s \in Sessions, error \in PageThrown : FetchRejected(s, error)
     /\ UNCHANGED route
  \/ /\ \E s \in Sessions, error \in PageThrown : ReadRejected(s, error)
     /\ UNCHANGED route

PageSpec == Init /\ [][PageNext]_vars

(***************************************************************************)
(* The aborted request.  fetch was given controller.signal (line 192):     *)
(* once controller.abort() ran (line 261), the pending fetch, json() or    *)
(* read() of the session rejects with an AbortError, a DOMException with   *)
(* a message.  The browser does this without waiting for the source.       *)
(***************************************************************************)
AbortError == [isError |-> TRUE, message |-> <<110>>]

AbortSettles(s) ==
  /\ sess[s].aborted
  /\ UNCHANGED route
  /\ \/ FetchRejected(s, AbortError)
     \/ ReadRejected(s, AbortError)
     \/ JsonSettled(s, [ok |-> FALSE])

\* Spec, with the rejection of an aborted request not put off for ever.
LiveSpec == Spec /\ WF_vars(\E s \in Sessions : AbortSettles(s))

\* Spec, with the body of an error response not left unread for ever:
\* response.json() resolves or rejects.
BodySettles(s) ==
  /\ UNCHANGED route
  /\ \E outcome \in JsonOutcomes : JsonSettled(s, outcome)

StatusSpec == Spec /\ WF_vars(\E s \in Sessions : BodySettles(s))

(***************************************************************************)
(* JobRunDetail: the page that tails the log of a job run.  Its state is   *)
(* one record, and each continuation of its effect is a function from the  *)
(* page before to the page after.                                          *)
(***************************************************************************)
\* The window of JobRunDetail, its own constant, of the same value.
JobMaxLogLines == MAX_LOG_LINES

\* `Failed to stream logs for run #${runId}.`
JobFallbackMessage(runId) == [kind |-> "fallback", run |-> runId]

\* The route parameters: `routeJobId ?? ''`, `routeRunId ?? ''`.
JobKey(jobId, runId) == [jobId |-> jobId, runId |-> runId]

\* `if (!jobId || !runId) return undefined`, negated.
JobHasKey(key) == key.jobId # "" /\ key.runId # ""

JobInit ==
  [mounted |-> FALSE, key |-> JobKey("", ""), logLines |-> <<>>,
   logError |-> NoError, isLoadingLogs |-> FALSE, sess |-> <<>>]

JobNewSession(key) ==
  [key |-> key, isActive |-> TRUE, aborted |-> FALSE, pc |-> "fetch",
   decoder |-> NewDecoder, pending |-> <<>>]

\* The cleanup the effect returned: registered only with both parameters set.
JobCleanup(ss, key) ==
  IF ~JobHasKey(key) \/ Len(ss) = 0 THEN ss
  ELSE [ss EXCEPT ![Len(ss)] = [@ EXCEPT !.isActive = FALSE, !.aborted = TRUE]]

JobRunEffect(page, key, ss) ==
  IF ~JobHasKey(key)
    THEN [page EXCEPT !.key = key, !.sess = ss]
    ELSE [page EXCEPT !.key = key, !.sess = Append(ss, JobNewSession(key)),
                      !.logLines = <<>>, !.logError = NoError,
                      !.isLoadingLogs = TRUE]

JobMount(page, key) ==
  JobRunEffect([page EXCEPT !.mounted = TRUE], key, page.sess)

JobChangeKey(page, key) ==
  JobRunEffect(page, key, JobCleanup(page.sess, page.key))

JobUnmount(page) ==
  [page EXCEPT !.mounted = FALSE, !.sess = JobCleanup(page.sess, page.key)]

\* `if (isActive) setIsLoadingLogs(false)` of the finally block.
JobFinally(page, s) ==
  IF page.sess[s].isActive THEN [page EXCEPT !.isLoadingLogs = FALSE] ELSE page

\* setLogError(message) when the guard before it lets it through, and return.
JobReportAndEnd(page, s, reports, message) ==
  JobFinally([page EXCEPT !.logError = IF reports THEN message ELSE @,
                          !.sess[s].pc = "done"], s)

JobFetchNotOk(page, s) == [page EXCEPT !.sess[s].pc = "json"]

JobErrorDetail(outcome, runId) ==
  IF outcome.ok /\ outcome.isString /\ Trim(outcome.detail) # <<>>
    THEN TextMessage(outcome.detail)
    ELSE JobFallbackMessage(runId)

JobJsonSettled(page, s, outcome) ==
  JobReportAndEnd(page, s, page.sess[s].isActive,
                  JobErrorDetail(outcome, page.sess[s].key.runId))

JobFetchNoReader(page, s) ==
  JobReportAndEnd(page, s, page.sess[s].isActive, UnsupportedMessage)

JobFetchOk(page, s) ==
  [page EXCEPT !.sess[s].pc = "read", !.sess[s].decoder = NewDecoder,
               !.sess[s].pending = <<>>]

\* Fault: the window keeps the first lines.
JobAppendBounded_KeepsOldest(previous, parts) ==
  LET next == previous \o parts
  IN  IF Len(next) <= JobMaxLogLines THEN next ELSE SubSeq(next, 1, JobMaxLogLines)

JobAppendBounded(previous, parts) ==
  LET next == previous \o parts
  IN  IF Len(next) <= JobMaxLogLines THEN next ELSE Slice(next, -JobMaxLogLines)

JobReadChunk(page, s, chunk) ==
  LET d == DecodeStream(page.sess[s].decoder, chunk)
      pieces == Split(page.sess[s].pending \o d.out)
      parts == PopRest(pieces)
      skip == ~page.sess[s].isActive \/ Len(parts) = 0
  IN  [page EXCEPT !.sess[s].decoder = d.dec,
                   !.sess[s].pending = PopValue(pieces),
                   !.logLines = IF skip THEN @ ELSE JobAppendBounded(@, parts)]

JobReadDone(page, s) ==
  LET finalChunk == page.sess[s].pending
                      \o DecodeFlush(page.sess[s].decoder, <<>>).out
      flush == page.sess[s].isActive /\ finalChunk # <<>>
  IN  JobFinally([page EXCEPT !.sess[s].pc = "done",
                              !.logLines = IF flush
                                             THEN JobAppendBounded(@, <<finalChunk>>)
                                             ELSE @], s)

JobGetErrorMessage(error, fallback) ==
  IF error.isError /\ error.message # <<>>
    THEN TextMessage(error.message) ELSE fallback

\* The catch block, for a rejected fetch and for a rejected read.
JobRejected(page, s, error) ==
  JobReportAndEnd(page, s,
                  ~(page.sess[s].aborted \/ ~page.sess[s].isActive),
                  JobGetErrorMessage(error,
                                     JobFallbackMessage(page.sess[s].key.runId)))

(***************************************************************************)
(* ProtectedRoute (Sidebar.tsx, lines 107-139) and fetchSession            *)
(* (session.ts).  The wrapper observes the ['session'] query, whose state  *)
(* outlives the wrapper: a check started goes on when the wrapper is       *)
(* unmounted, and its result is there at the next mount.                   *)
(***************************************************************************)
podVars == <<mounted, podName, logLines, logError, isStreaming, sess>>

\* Bodies of GET /me, each field by the kind of value it holds.
UserPayload(id, email, resets, remaining) ==
  [isObject |-> TRUE, id |-> id, email |-> email,
   high_priority_quota_minutes |-> "number",
   high_priority_minutes_used |-> "number",
   quota_resets_at |-> resets, high_priority_minutes_remaining |-> remaining]

Payloads ==
  { UserPayload("number", "string", "string", "number"),
    UserPayload("number", "string", "null", "null"),
    UserPayload("missing", "string", "null", "number"),
    UserPayload("number", "string", "missing", "number"),
    UserPayload("number", "string", "string", "string"),
    [isObject |-> FALSE] }

isSessionUser(value) ==
  /\ value.isObject
  /\ value.id = "number"
  /\ value.email = "string"
  /\ value.high_priority_quota_minutes = "number"
  /\ value.high_priority_minutes_used = "number"
  /\ value.quota_resets_at \in {"string", "null"}
  /\ value.high_priority_minutes_remaining \in {"number", "null"}

\* What the request for /me comes to: fetch rejects, or resolves with a
\* status and a body that is JSON or not.
Responses ==
  {[rejected |-> TRUE]}
    \cup {[rejected |-> FALSE, status |-> st, readable |-> FALSE] : st \in {401, 500, 200}}
    \cup {[rejected |-> FALSE, status |-> 200, readable |-> TRUE, payload |-> p] :
            p \in Payloads}

\* fetchSession: the user, or what it throws.
fetchSession(response) ==
  IF response.rejected THEN [ok |-> FALSE, thrown |-> "Error"]
  ELSE IF response.status = 401 THEN [ok |-> FALSE, thrown |-> "UnauthorizedSessionError"]
  ELSE IF ~(response.status >= 200 /\ response.status <= 299)
    THEN [ok |-> FALSE, thrown |-> "Error"]
  ELSE IF ~response.readable THEN [ok |-> FALSE, thrown |-> "Error"]
  ELSE IF ~isSessionUser(response.payload) THEN [ok |-> FALSE, thrown |-> "Error"]
  ELSE [ok |-> TRUE]

\* The queryFn of the session query: the user, or a SessionError with a code.
queryFn(response) ==
  LET result == fetchSession(response)
  IN  IF result.ok THEN [ok |-> TRUE]
      ELSE IF result.thrown = "UnauthorizedSessionError"
        THEN [ok |-> FALSE, code |-> "unauth"]
        ELSE [ok |-> FALSE, code |-> "error"]

\* What ProtectedRoute returns (lines 134-138).
RouteRender(status) ==
  IF status = "pending" THEN "placeholder"
  ELSE IF status = "error" THEN "null"
  ELSE "children"

\* A fetch of the query starts: without data the query is pending again.
StartCheck(q) ==
  [q EXCEPT !.fetching = TRUE,
            !.checks = @ + 1,
            !.status = IF q.hasData THEN @ ELSE "pending",
            !.code = IF q.hasData THEN @ ELSE "none"]

\* The protected area is entered: the wrapper mounts, the query (always
\* stale) is fetched unless a fetch is in flight, and the effect is due.
RouteEnter ==
  /\ ~route.mounted
  /\ LET q == IF route.fetching THEN route ELSE StartCheck(route)
     IN  route' = [q EXCEPT !.mounted = TRUE, !.shown = RouteRender(q.status),
                            !.effectDue = TRUE]
  /\ UNCHANGED podVars

\* The user leaves the protected area.
RouteLeave ==
  /\ route.mounted /\ ~route.effectDue
  /\ route' = [route EXCEPT !.mounted = FALSE, !.shown = "nothing"]
  /\ UNCHANGED podVars

\* Fault: only an unauthorized session sends the user to '/'.
RouteEffect_OnlyUnauthorized ==
  /\ route.mounted /\ route.effectDue
  /\ route' = IF route.status = "error" /\ route.code = "unauth"
                THEN [route EXCEPT !.effectDue = FALSE, !.mounted = FALSE,
                                   !.shown = "nothing", !.navigations = @ + 1]
                ELSE [route EXCEPT !.effectDue = FALSE]
  /\ UNCHANGED podVars

\* The effect (lines 130-132): `if (sessionQuery.isError) navigate('/')`,
\* and '/' is outside the wrapper, which unmounts.
RouteEffect ==
  /\ route.mounted /\ route.effectDue
  /\ route' = IF route.status = "error"
                THEN [route EXCEPT !.effectDue = FALSE, !.mounted = FALSE,
                                   !.shown = "nothing", !.navigations = @ + 1]
                ELSE [route EXCEPT !.effectDue = FALSE]
  /\ UNCHANGED podVars

\* The interval (refetchInterval, also in the background) starts a check.
RefetchTick ==
  /\ route.mounted /\ ~route.effectDue /\ ~route.fetching
  /\ route' = StartCheck(route)
  /\ UNCHANGED podVars

\* The check settles (retry: false).  A mounted wrapper renders again, after
\* the effect of its previous render has run, and the effect is due again
\* when isError changed.
SessionSettled(response) ==
  /\ route.fetching
  /\ ~(route.mounted /\ route.effectDue)
  /\ LET result == queryFn(response)
         status == IF result.ok THEN "success" ELSE "error"
     IN  route' = [route EXCEPT
                     !.fetching = FALSE,
                     !.status = status,
                     !.code = IF result.ok THEN "none" ELSE result.code,
                     !.hasData = @ \/ result.ok,
                     !.shown = IF route.mounted THEN RouteRender(status) ELSE @,
                     !.effectDue = route.mounted
                                     /\ (status = "error") # (route.status = "error")]
  /\ UNCHANGED podVars

RouteNext ==
  \/ route.navigations < MaxNavigations /\ route.checks < MaxChecks /\ RouteEnter
  \/ RouteLeave
  \/ RouteEffect
  \/ route.checks < MaxChecks /\ RefetchTick
  \/ \E response \in Responses : SessionSettled(response)

\* The effect of a committed render runs.
RouteSpec == Init /\ [][RouteNext]_vars /\ WF_vars(RouteEffect)

(***************************************************************************)
(* What the page renders of the log state (PodDetail.tsx, lines 368-382).  *)
(***************************************************************************)
\* JavaScript truthiness of logError: null and '' are falsy.
Truthy(message) ==
  /\ message.kind # "null"
  /\ ~(message.kind = "text" /\ message.text = <<>>)

\* `logError ? <p>{logError}</p> : <div role="log">...</div>`
ShowsError == Truthy(logError)

\* The lines on screen: the log container is rendered only without an error.
VisibleLines == IF ShowsError THEN <<>> ELSE logLines

(***************************************************************************)
(* Reference notions the properties are stated with.  They are computed    *)
(* from the whole byte sequence a session was given, in one pass.          *)
(***************************************************************************)
\* The last k elements of a sequence (all of it when it is shorter).
LastK(seq, k) == SubSeq(seq, Len(seq) - Min(Len(seq), k) + 1, Len(seq))

\* The text of the bytes while the stream is open, and once it has ended.
OpenText(bytes) == DecodeStream(NewDecoder, bytes).out
EndedText(bytes) == DecodeFlush(NewDecoder, bytes).out

\* The lines terminated by a line feed within a text, and what follows the
\* last line feed.
TerminatedLines(text) == PopRest(Split(text))
Unterminated(text) == PopValue(Split(text))

\* The lines of a stream that has ended: the terminated ones, then the
\* unterminated rest when there is any.
EndedLines(bytes) ==
  LET text == EndedText(bytes)
  IN  IF Unterminated(text) = <<>> THEN TerminatedLines(text)
      ELSE Append(TerminatedLines(text), Unterminated(text))

\* The step is streamLogs of session s leaving its read loop on done.
EndsGracefully(s) ==
  /\ s \in Sessions
  /\ sess[s].pc = "read"
  /\ Len(sess') = Len(sess)
  /\ sess'[s].how = "ended"

(***************************************************************************)
(* C1  The retained lines never number more than MAX_LOG_LINES, after      *)
(* every per-chunk update and after the final flush.                       *)
(***************************************************************************)
C1_LinesBounded == Len(logLines) <= MAX_LOG_LINES

\* A session that ended gracefully, whose final flush was delivered when the
\* window was already full.
C1_Witness ==
  \E s \in Sessions :
    /\ sess[s].how = "ended" /\ sess[s].isActive
    /\ Len(sess[s].produced) > MAX_LOG_LINES
    /\ sess[s].received[Len(sess[s].received)] # LF
    /\ Len(logLines) = MAX_LOG_LINES

(***************************************************************************)
(* C2  While a session is active, the retained lines are exactly the last  *)
(* min(n, MAX_LOG_LINES) of the n lines it completed, in completion order: *)
(* only the oldest lines are evicted and none comes back.                  *)
(***************************************************************************)
C2_WindowIsNewestLines ==
  \A s \in Sessions :
    sess[s].isActive => logLines = LastK(sess[s].produced, MAX_LOG_LINES)

\* One chunk completed more lines than the window holds, the first of them
\* not empty, and was delivered in a single update.
C2_Witness ==
  \E s \in Sessions :
    /\ sess[s].isActive /\ sess[s].pc = "read"
    /\ sess[s].updates = 1
    /\ Len(sess[s].produced) > MAX_LOG_LINES
    /\ sess[s].produced[1] # <<>>
    /\ logLines # <<>>

(***************************************************************************)
(* C3  For an uncancelled session, the lines completed and the retained    *)
(* window depend only on the bytes received, not on how they were cut into *)
(* chunks: while reading they are the terminated lines of the text of all  *)
(* bytes so far, and after a graceful end the lines of the whole stream.   *)
(***************************************************************************)
C3_ChunkingInvariant ==
  \A s \in Sessions :
    sess[s].isActive =>
      /\ sess[s].pc = "read" =>
           /\ sess[s].produced = TerminatedLines(OpenText(sess[s].received))
           /\ sess[s].pending = Unterminated(OpenText(sess[s].received))
           /\ logLines = LastK(TerminatedLines(OpenText(sess[s].received)),
                               MAX_LOG_LINES)
      /\ sess[s].how = "ended" =>
           /\ sess[s].produced = EndedLines(sess[s].received)
           /\ logLines = LastK(EndedLines(sess[s].received), MAX_LOG_LINES)

\* A graceful end after a chunk boundary fell inside the 3-byte character
\* U+2082, which is in a line all the same.
C3_Witness ==
  \E s \in Sessions :
    /\ sess[s].how = "ended" /\ sess[s].isActive
    /\ sess[s].splitChar
    /\ \E i \in 1..Len(logLines) : \E j \in 1..Len(logLines[i]) :
         logLines[i][j] = 8322

(***************************************************************************)
(* C4  Once a session is cancelled it makes no lines update and no error   *)
(* report, whatever is delivered to it afterwards and wherever it was      *)
(* suspended; the cancelling step itself reports nothing; and with every   *)
(* session cancelled and none started, logLines and logError stay put.     *)
(***************************************************************************)
C4_SilentAfterCancel ==
  [][ /\ \A s \in Sessions :
           (~sess[s].isActive \/ ~sess'[s].isActive) =>
             /\ sess'[s].updates = sess[s].updates
             /\ sess'[s].errors = sess[s].errors
      /\ ((\A s \in Sessions : ~sess[s].isActive) /\ Len(sess') = Len(sess)) =>
             /\ logLines' = logLines
             /\ logError' = logError ]_vars

\* A session cancelled while reading, to which a chunk completing a line and
\* then a transport failure were still delivered.
C4_Witness ==
  \E s \in Sessions :
    /\ ~sess[s].isActive /\ sess[s].cancelledAt = "read"
    /\ sess[s].how = "thrown"
    /\ Len(sess[s].produced) > 0 /\ sess[s].updates = 0
    /\ logLines = <<>> /\ logError = NoError

(***************************************************************************)
(* C5  After a session has reported an error it makes no lines update.     *)
(***************************************************************************)
C5_ErrorIsTerminal ==
  [][ \A s \in Sessions :
        sess[s].errors > 0 =>
          /\ sess'[s].updates = sess[s].updates
          /\ sess'[s].pc = "done"
          /\ Len(sess') = Len(sess) => logLines' = logLines ]_vars

\* An error reported after lines were delivered, and an event after it.
C5_Witness ==
  \E s \in Sessions :
    /\ sess[s].errors = 1 /\ sess[s].updates > 0
    /\ sess[s].how = "thrown"
    /\ ~mounted

(***************************************************************************)
(* C6  A session reports an error at most once, on every failure path.     *)
(***************************************************************************)
C6_AtMostOneError ==
  \A s \in Sessions :
    /\ sess[s].errors <= 1
    /\ sess[s].errors = 1 =>
         /\ sess[s].pc = "done"
         /\ sess[s].how \in {"status", "noreader", "thrown"}

\* The non-success path, reported with the detail of the response.
C6_Witness ==
  \E s \in Sessions :
    /\ sess[s].errors = 1 /\ sess[s].how = "status"
    /\ logError.kind = "text"

(***************************************************************************)
(* C7  When the stream ends gracefully on an active session and text is    *)
(* left undelivered (what follows the last line feed, with whatever the    *)
(* decoder still carried), that text is appended as exactly one line, the  *)
(* window is cut to MAX_LOG_LINES again, and one lines update is made.     *)
(***************************************************************************)
C7_FinalFlush ==
  [][ \A s \in Sessions :
        LET rest == Unterminated(EndedText(sess[s].received))
        IN  (EndsGracefully(s) /\ sess[s].isActive /\ rest # <<>>) =>
              /\ sess'[s].updates = sess[s].updates + 1
              /\ sess'[s].produced = Append(sess[s].produced, rest)
              /\ logLines' = LastK(Append(logLines, rest), MAX_LOG_LINES)
              /\ logLines'[Len(logLines')] = rest ]_vars

\* A graceful end with the window full and the decoder carrying the start
\* of a character after pending text.
C7_Witness ==
  \E s \in Sessions :
    /\ sess[s].how = "ended" /\ sess[s].isActive
    /\ Len(sess[s].produced) > MAX_LOG_LINES
    /\ sess[s].decoder.needed # 0
    /\ sess[s].pending # <<>>
    /\ logLines[Len(logLines)] = Append(sess[s].pending, REPLACEMENT)

(***************************************************************************)
(* C8  When the stream ends gracefully and the bytes received ended with a *)
(* line feed, the end appends no line and makes no lines update.           *)
(***************************************************************************)
C8_NoSpuriousLine ==
  [][ \A s \in Sessions :
        (/\ EndsGracefully(s)
         /\ sess[s].received # <<>>
         /\ sess[s].received[Len(sess[s].received)] = LF) =>
              /\ sess'[s].updates = sess[s].updates
              /\ sess'[s].produced = sess[s].produced
              /\ logLines' = logLines ]_vars

\* A graceful end right after a line feed, on an active session with lines.
C8_Witness ==
  \E s \in Sessions :
    /\ sess[s].how = "ended" /\ sess[s].isActive
    /\ sess[s].received # <<>>
    /\ sess[s].received[Len(sess[s].received)] = LF
    /\ sess[s].pending = <<>>
    /\ Len(logLines) = Len(sess[s].produced)
    /\ logLines # <<>>

(***************************************************************************)
(* C10  A session cancelled right after its start, before fetch settled,   *)
(* never makes a lines update or an error report; as long as it is the     *)
(* page's latest session, nothing is shown.                                *)
(***************************************************************************)
C10_CancelBeforeResponse ==
  \A s \in Sessions :
    sess[s].cancelledAt = "fetch" =>
      /\ sess[s].updates = 0
      /\ sess[s].errors = 0
      /\ s = Len(sess) => (logLines = <<>> /\ logError = NoError)

\* Cancelled before the response; the response, bytes with a line and an
\* unterminated rest, and the end of the stream came all the same.
C10_Witness ==
  \E s \in Sessions :
    /\ sess[s].cancelledAt = "fetch"
    /\ sess[s].how = "ended"
    /\ sess[s].produced # <<>>
    /\ sess[s].received[Len(sess[s].received)] # LF

(***************************************************************************)
(* C11  When a read fails on an active session, every line completed from  *)
(* the bytes received so far has already been delivered to logLines; the   *)
(* failing step makes the session's one error report, with a non-empty     *)
(* message, makes no lines update, and ends streamLogs.                    *)
(***************************************************************************)
C11_UpdatesThenError ==
  [][ \A s \in Sessions :
        (/\ sess[s].pc = "read" /\ sess[s].isActive /\ ~sess[s].aborted
         /\ Len(sess') = Len(sess)
         /\ sess'[s].how = "thrown") =>
            /\ logLines = LastK(TerminatedLines(OpenText(sess[s].received)),
                                MAX_LOG_LINES)
            /\ sess[s].produced # <<>> => sess[s].updates > 0
            /\ sess[s].errors = 0 /\ sess'[s].errors = 1
            /\ Truthy(logError')
            /\ sess'[s].updates = sess[s].updates
            /\ logLines' = logLines
            /\ sess'[s].pc = "done" ]_vars

\* Lines were delivered, then the read failed with an Error that has no
\* message: the fallback is reported.
C11_Witness ==
  \E s \in Sessions :
    /\ sess[s].how = "thrown" /\ sess[s].isActive
    /\ sess[s].errors = 1 /\ sess[s].updates > 0
    /\ logLines # <<>>
    /\ logError = FallbackMessage(sess[s].key)

(***************************************************************************)
(* C12  After the page's latest session reported an error, the lines it    *)
(* delivered before are still on screen.                                   *)
(***************************************************************************)
C12_LinesStayVisible ==
  \A s \in Sessions :
    (sess[s].errors > 0 /\ s = Len(sess)) =>
      VisibleLines = LastK(sess[s].produced, MAX_LOG_LINES)

(***************************************************************************)
(* C13  The step in which a session reports an error leaves logLines as    *)
(* they were.                                                              *)
(***************************************************************************)
C13_ErrorKeepsLines ==
  [][ \A s \in Sessions :
        (Len(sess') = Len(sess) /\ sess'[s].errors > sess[s].errors) =>
           logLines' = logLines ]_vars

\* An error reported with the window full; the lines are still in the state.
C13_Witness ==
  \E s \in Sessions :
    /\ sess[s].errors = 1 /\ sess[s].how = "thrown"
    /\ mounted
    /\ logError.kind = "text"
    /\ Len(logLines) = MAX_LOG_LINES
    /\ logLines = LastK(sess[s].produced, MAX_LOG_LINES)

(***************************************************************************)
(* C14  A session whose response has no reader reads nothing and makes no  *)
(* lines update; if it was active then, it reported the unsupported-       *)
(* browser message, once, and that is what the page holds.                 *)
(***************************************************************************)
C14_NoReader ==
  \A s \in Sessions :
    sess[s].how = "noreader" =>
      /\ sess[s].pc = "done"
      /\ sess[s].received = <<>> /\ sess[s].produced = <<>>
      /\ sess[s].updates = 0
      /\ sess[s].cancelledAt \in {"never", "done"} =>
           /\ sess[s].errors = 1
           /\ s = Len(sess) => (logError = UnsupportedMessage /\ logLines = <<>>)

\* The report was made, and the session cancelled afterwards.
C14_Witness ==
  \E s \in Sessions :
    /\ sess[s].how = "noreader" /\ sess[s].errors = 1
    /\ sess[s].cancelledAt = "done"
    /\ logError = UnsupportedMessage
    /\ ~isStreaming

(***************************************************************************)
(* C15  A session whose request was answered with a non-success status     *)
(* never reads the body as log data and makes no lines update; if it was   *)
(* active when the error body was parsed, it reported exactly one error    *)
(* and ended.                                                              *)
(***************************************************************************)
C15_NonSuccess ==
  \A s \in Sessions :
    sess[s].response = "notok" =>
      /\ sess[s].pc \in {"json", "done"}
      /\ sess[s].received = <<>> /\ sess[s].produced = <<>>
      /\ sess[s].updates = 0
      /\ sess[s].pc = "json" => sess[s].errors = 0
      /\ sess[s].pc = "done" =>
           /\ sess[s].how = "status"
           /\ sess[s].cancelledAt \in {"never", "done"} =>
                /\ sess[s].errors = 1
                /\ s = Len(sess) => (Truthy(logError) /\ logLines = <<>>)

\* The error body was no JSON: the fallback message was reported.
C15_Witness ==
  \E s \in Sessions :
    /\ sess[s].response = "notok" /\ sess[s].pc = "done"
    /\ sess[s].isActive /\ sess[s].errors = 1
    /\ logError = FallbackMessage(sess[s].key)
    /\ ~isStreaming

(***************************************************************************)
(* C17  A session makes one request.  Once streamLogs has returned, after  *)
(* a graceful end or an error, the session makes no request, reads         *)
(* nothing and changes no lines.                                           *)
(***************************************************************************)
C17_NoRetry ==
  [][ \A s \in Sessions :
        /\ sess[s].requests = 1
        /\ Len(sess') = Len(sess) =>
             /\ sess'[s].requests = 1
             /\ sess[s].pc = "done" =>
                  /\ sess'[s].pc = "done"
                  /\ sess'[s].received = sess[s].received
                  /\ sess'[s].produced = sess[s].produced
                  /\ sess'[s].updates = sess[s].updates
                  /\ sess'[s].errors = sess[s].errors
                  /\ s = Len(sess) => logLines' = logLines ]_vars

\* A graceful end after lines, and the page unmounted afterwards.
C17_Witness ==
  \E s \in Sessions :
    /\ sess[s].how = "ended" /\ sess[s].updates > 0
    /\ sess[s].cancelledAt = "done"
    /\ sess[s].requests = 1
    /\ ~mounted

(***************************************************************************)
(* C20  Between chunks, the pending text of a session holds no line feed.  *)
(***************************************************************************)
C20_PendingHasNoLineFeed ==
  \A s \in Sessions :
    \A i \in 1..Len(sess[s].pending) : sess[s].pending[i] # LF

\* One chunk with two line feeds in a row and text after them.
C20_Witness ==
  \E s \in Sessions :
    /\ sess[s].pc = "read" /\ sess[s].updates = 1
    /\ Len(sess[s].produced) = 2
    /\ sess[s].produced[1] # <<>> /\ sess[s].produced[2] = <<>>
    /\ sess[s].pending # <<>>

(***************************************************************************)
(* C18  A chunk delivered to a cancelled session is discarded, and the     *)
(* session stops there: it is not left waiting on another read.            *)
(***************************************************************************)
C18_StopsOnCancel ==
  [][ \A s \in Sessions :
        (/\ sess[s].pc = "read" /\ ~sess[s].isActive
         /\ Len(sess') = Len(sess)
         /\ sess'[s].received # sess[s].received) =>
            /\ sess'[s].updates = sess[s].updates
            /\ logLines' = logLines
            /\ sess'[s].pc # "read" ]_vars

(***************************************************************************)
(* C19  Once the page's session is cancelled, streamLogs eventually        *)
(* returns, also when the source sends nothing more and never ends.        *)
(***************************************************************************)
C19_CancelledLoopExits ==
  (Len(sess) >= 1 /\ ~sess[1].isActive) ~> (Len(sess) >= 1 /\ sess[1].pc = "done")

\* Cancelled while waiting on the first read of a source that sent nothing:
\* the read was rejected and streamLogs returned without a report.
C19_Witness ==
  \E s \in Sessions :
    /\ sess[s].cancelledAt = "read" /\ sess[s].aborted
    /\ sess[s].received = <<>>
    /\ sess[s].pc = "done" /\ sess[s].how = "thrown"
    /\ sess[s].errors = 0

(***************************************************************************)
(* C16  Sessions of the page are independent: a step that is an event of   *)
(* one session (a chunk, the end of the stream, a failure, its cancel)     *)
(* leaves every other session's record (its pending text, decoder, lines   *)
(* completed, reports) as it was; while another session is the active one  *)
(* it leaves the lines and the error on display as they were; and a        *)
(* successor starts from no lines and no error.                            *)
(***************************************************************************)
C16_SessionsIndependent ==
  [][ \A s \in Sessions :
        sess'[s] # sess[s] =>
          /\ \A t \in Sessions \ {s} : sess'[t] = sess[t]
          /\ (\E t \in Sessions \ {s} : sess[t].isActive) =>
                /\ logLines' = logLines
                /\ logError' = logError
          /\ Len(sess') > Len(sess) =>
                /\ logLines' = <<>>
                /\ logError' = NoError ]_vars

\* A session cancelled with its request in flight completed a line and ended
\* while its successor was running; the successor completed a different line,
\* and that line alone is on display.
C16_Witness ==
  /\ Len(sess) = 2
  /\ ~sess[1].isActive /\ sess[1].pc = "done" /\ sess[1].how = "ended"
  /\ sess[1].produced # <<>> /\ sess[1].updates = 0
  /\ sess[2].isActive /\ sess[2].updates > 0
  /\ sess[2].produced # sess[1].produced
  /\ logLines = LastK(sess[2].produced, MAX_LOG_LINES)
  /\ logError = NoError

(***************************************************************************)
(* C21  A chunk that completes no line makes no lines update and leaves    *)
(* logLines as it was, and a chunk makes a lines update only when it       *)
(* completed at least one line.                                            *)
(***************************************************************************)
C21_NoUpdateWithoutLine ==
  [][ \A s \in Sessions :
        (/\ sess[s].pc = "read"
         /\ Len(sess') = Len(sess)
         /\ sess'[s].received # sess[s].received) =>
            /\ sess'[s].produced = sess[s].produced =>
                  /\ sess'[s].updates = sess[s].updates
                  /\ logLines' = logLines
            /\ sess'[s].updates # sess[s].updates =>
                  Len(sess'[s].produced) > Len(sess[s].produced) ]_vars

\* An active session whose chunks so far only extended the pending text: no
\* line, no update.
C21_Witness ==
  \E s \in Sessions :
    /\ sess[s].isActive /\ sess[s].pc = "read"
    /\ sess[s].received # <<>> /\ sess[s].pending # <<>>
    /\ sess[s].produced = <<>>
    /\ sess[s].updates = 0 /\ logLines = <<>>

(***************************************************************************)
(* C22  On a non-success response the message is the body's `detail` when  *)
(* the body parsed and detail is a string with a character that is not     *)
(* white space, and the fallback otherwise.  A body that does not parse    *)
(* is not a failure of streamLogs: the step that settles it ends the       *)
(* session as a status error, with one report if the session is active     *)
(* and none if it is cancelled.                                            *)
(***************************************************************************)
NonBlank(text) == \E i \in 1..Len(text) : text[i] \notin WhiteSpace

ExpectedDetail(outcome, key) ==
  IF outcome.ok /\ outcome.isString /\ NonBlank(outcome.detail)
    THEN TextMessage(outcome.detail)
    ELSE FallbackMessage(key)

C22_DetailOrFallback ==
  [][ /\ \A outcome \in JsonOutcomes, key \in Keys :
           ErrorDetail(outcome, key) = ExpectedDetail(outcome, key)
      /\ \A s \in Sessions :
           (sess[s].pc = "json" /\ Len(sess') = Len(sess)
                                /\ sess'[s].pc # "json") =>
              /\ sess'[s].pc = "done" /\ sess'[s].how = "status"
              /\ sess[s].isActive =>
                    /\ sess'[s].errors = 1
                    /\ \E outcome \in JsonOutcomes :
                         logError' = ExpectedDetail(outcome, sess[s].key)
              /\ ~sess[s].isActive =>
                    /\ sess'[s].errors = 0
                    /\ logError' = logError ]_vars

\* The body carried a detail with trailing white space: it is reported as it
\* came, once.
C22_Witness ==
  \E s \in Sessions :
    /\ sess[s].response = "notok" /\ sess[s].how = "status"
    /\ sess[s].errors = 1
    /\ logError.kind = "text" /\ NonBlank(logError.text)
    /\ logError.text # Trim(logError.text)

(***************************************************************************)
(* C23  A session waiting for its next chunk changes nothing by itself:    *)
(* every step taken while it waits is a chunk, the end of the stream, a    *)
(* rejected read or its cancel, or leaves its pending text and the rest of *)
(* its record, the lines, the error and the indicator as they were.  There *)
(* is no transition for time passing.                                      *)
(***************************************************************************)
C23_WaitsForEvents ==
  [][ \A s \in Sessions :
        (sess[s].pc = "read" /\ Len(sess') = Len(sess)) =>
           \/ sess'[s].received # sess[s].received
           \/ sess'[s].pc = "done" /\ sess'[s].how = "ended"
           \/ sess'[s].pc = "done" /\ sess'[s].how = "thrown"
           \/ sess[s].isActive /\ ~sess'[s].isActive
           \/ /\ sess'[s] = sess[s]
              /\ logLines' = logLines
              /\ logError' = logError
              /\ isStreaming' = isStreaming ]_vars

\* An active session waiting on a read with lines on display, text pending
\* and the indicator on.
C23_Witness ==
  \E s \in Sessions :
    /\ sess[s].isActive /\ sess[s].pc = "read"
    /\ sess[s].pending # <<>> /\ logLines # <<>>
    /\ logLines = LastK(sess[s].produced, MAX_LOG_LINES)
    /\ logError = NoError /\ isStreaming

(***************************************************************************)
(* C24  PodDetail and JobRunDetail are the same decoder.  The pod page is  *)
(* read as a job-run page (the pod p as the run p of job j1, no pod as a   *)
(* route with the job, the run or both missing, the pod fallback as the    *)
(* run fallback), and every step of the pod page is the step JobRunDetail  *)
(* takes on the same event from that page: the two hold the same lines,    *)
(* an error together and the same indicator after every step.              *)
(***************************************************************************)
JobKeysOf(k) ==
  IF k = NoKey THEN {JobKey("", ""), JobKey("j1", ""), JobKey("", "r1")}
  ELSE {JobKey("j1", k)}

AsJobMessage(message) ==
  IF message.kind = "fallback" THEN JobFallbackMessage(message.pod) ELSE message

AsJobSession(r) ==
  [key |-> JobKey("j1", r.key), isActive |-> r.isActive, aborted |-> r.aborted,
   pc |-> r.pc, decoder |-> r.decoder, pending |-> r.pending]

AsJobPage(m, key, lines, error, busy, ss) ==
  [mounted |-> m, key |-> key, logLines |-> lines,
   logError |-> AsJobMessage(error), isLoadingLogs |-> busy,
   sess |-> [i \in 1..Len(ss) |-> AsJobSession(ss[i])]]

C24_SameDecoder ==
  [][ \A before \in JobKeysOf(podName), after \in JobKeysOf(podName') :
        LET page == AsJobPage(mounted, before, logLines, logError, isStreaming, sess)
            same == AsJobPage(mounted', before, logLines', logError', isStreaming', sess')
            moved == AsJobPage(mounted', after, logLines', logError', isStreaming', sess')
        IN  /\ Truthy(AsJobMessage(logError')) = Truthy(logError')
            /\ Mount(podName') => moved = JobMount(page, after)
            /\ ChangeKey(podName') => moved = JobChangeKey(page, after)
            /\ Unmount => same = JobUnmount(page)
            /\ \A s \in {t \in Sessions : sess'[t] # sess[t]} :
                 /\ FetchNotOk(s) => same = JobFetchNotOk(page, s)
                 /\ FetchNoReader(s) => same = JobFetchNoReader(page, s)
                 /\ FetchOk(s) => same = JobFetchOk(page, s)
                 /\ ReadDone(s) => same = JobReadDone(page, s)
                 /\ \A outcome \in JsonOutcomes :
                      JsonSettled(s, outcome) => same = JobJsonSettled(page, s, outcome)
                 /\ Len(sess'[s].received) > Len(sess[s].received) =>
                      LET chunk == SubSeq(sess'[s].received,
                                          Len(sess[s].received) + 1,
                                          Len(sess'[s].received))
                      IN  ReadChunk(s, chunk) => same = JobReadChunk(page, s, chunk)
                 /\ \A error \in Thrown :
                      /\ FetchRejected(s, error) => same = JobRejected(page, s, error)
                      /\ ReadRejected(s, error) => same = JobRejected(page, s, error)
    ]_vars

\* The page moved from one pod to another while the first was being read,
\* and the read of the first was rejected; the second pod's stream
\* overflowed the window and ended.
C24_Witness ==
  /\ Len(sess) = 2
  /\ sess[1].cancelledAt = "read" /\ sess[1].how = "thrown"
  /\ sess[2].isActive /\ sess[2].how = "ended"
  /\ Len(sess[2].produced) > MAX_LOG_LINES
  /\ Len(logLines) = MAX_LOG_LINES
  /\ ~isStreaming

(***************************************************************************)
(* C25  When a read is rejected, the text pending after the last line feed *)
(* is dropped: the step makes no lines update, completes no line and       *)
(* leaves logLines as it was.  A line is completed without a chunk only by *)
(* the graceful end of the stream.                                         *)
(***************************************************************************)
C25_FailureDropsPending ==
  [][ \A s \in Sessions :
        (sess[s].pc = "read" /\ Len(sess') = Len(sess)) =>
           /\ sess'[s].how = "thrown" =>
                 /\ sess'[s].updates = sess[s].updates
                 /\ sess'[s].produced = sess[s].produced
                 /\ logLines' = logLines
           /\ (/\ sess'[s].received = sess[s].received
               /\ sess'[s].produced # sess[s].produced) => sess'[s].how = "ended" ]_vars

\* An active session delivered a line, held text after it, and its read was
\* rejected: the error is reported and the line is all there is.
C25_Witness ==
  \E s \in Sessions :
    /\ sess[s].isActive /\ sess[s].how = "thrown" /\ sess[s].errors = 1
    /\ sess[s].pending # <<>>
    /\ Len(sess[s].produced) = 1 /\ logLines = sess[s].produced
    /\ sess[s].produced[1] # sess[s].pending

(***************************************************************************)
(* C26  When podName changes to another pod, the step cancels the session  *)
(* of the previous pod and starts the new one with no lines and no error.  *)
(* Only the newest session can be active, and while it is, the lines on    *)
(* display are its own and so is the error, whatever is still delivered to *)
(* the sessions before it.                                                 *)
(***************************************************************************)
C26_KeyChangeResets ==
  [][ /\ Len(sess') > Len(sess) =>
           /\ Len(sess') = Len(sess) + 1
           /\ \A s \in Sessions : ~sess'[s].isActive /\ sess'[s].aborted
           /\ sess'[Len(sess')] = NewSession(podName')
           /\ logLines' = <<>> /\ logError' = NoError
      /\ \A s \in 1..Len(sess') :
           sess'[s].isActive =>
              /\ s = Len(sess')
              /\ logLines' = LastK(sess'[s].produced, MAX_LOG_LINES)
              /\ logError' # NoError => sess'[s].errors = 1
              /\ sess'[s].errors = 0 => logError' = NoError ]_vars

\* The page moved to the second pod while the first was being read; a chunk
\* of the first, in flight, completed a line and its read then failed; the
\* second pod's line alone is on display, with no error.
C26_Witness ==
  /\ Len(sess) = 2
  /\ sess[1].cancelledAt = "read" /\ sess[1].how = "thrown"
  /\ sess[1].produced # <<>> /\ sess[1].updates = 0 /\ sess[1].errors = 0
  /\ sess[2].isActive /\ sess[2].key # sess[1].key
  /\ sess[2].updates = 1 /\ sess[2].produced # sess[1].produced
  /\ logLines = sess[2].produced /\ logError = NoError

C29_EmptyKeyStartsNothing ==
  [][ /\ \A s \in 1..Len(sess') : sess'[s].key # NoKey
      /\ (podName' = NoKey /\ (podName # NoKey \/ mounted' # mounted)) =>
            /\ Len(sess') = Len(sess)
            /\ logLines' = logLines
            /\ logError' = logError
            /\ isStreaming' = isStreaming
      /\ (podName = NoKey /\ (podName' # NoKey \/ mounted' # mounted)) =>
            \A s \in Sessions : /\ sess'[s].isActive = sess[s].isActive
                                /\ sess'[s].aborted = sess[s].aborted ]_vars

\* The page lost its podName while lines of the pod were on display: they
\* are still there, and no second session exists.
C29_Witness ==
  /\ mounted /\ podName = NoKey
  /\ Len(sess) = 1 /\ ~sess[1].isActive
  /\ logLines # <<>> /\ logLines = LastK(sess[1].produced, MAX_LOG_LINES)

(***************************************************************************)
(* C30  ProtectedRoute renders the protected pages only while the session  *)
(* check is in its success state: with the check pending it renders the    *)
(* placeholder, with the check failed (unauthorized or any other error,    *)
(* the first check or a later one) it renders nothing; a failed check on   *)
(* a mounted wrapper always has the effect due, the wrapper leaves that    *)
(* state only by navigate('/'), and it does leave it.                      *)
(***************************************************************************)
C30_ProtectedOnlyOnSuccess ==
  /\ [](route.shown = "children" => (route.mounted /\ route.status = "success"))
  /\ [](route.mounted =>
          /\ route.status = "pending" => route.shown = "placeholder"
          /\ route.status = "error" => (route.shown = "null" /\ route.effectDue))
  /\ [][ (route.mounted /\ route.status = "error" /\ route' # route) =>
            /\ ~route'.mounted
            /\ route'.navigations = route.navigations + 1 ]_vars
  /\ (route.mounted /\ route.status = "error") ~> ~route.mounted

\* A periodic check failed, for a reason other than an unauthorized session,
\* after the pages had been shown: the user was sent to '/'.
C30_Witness ==
  /\ route.hasData /\ route.status = "error" /\ route.code = "error"
  /\ route.checks >= 2 /\ route.navigations = 1
  /\ ~route.mounted /\ route.shown = "nothing" /\ ~route.fetching

====
